---- MODULE Spec2Model ----
(***************************************************************************)
(* Model of packer.c: XOR encryption, run-length compression and sector    *)
(* padding of an application binary, and the main() that chains them.      *)
(*                                                                         *)
(* Bytes are integers 0..255, buffers and files are sequences of bytes.    *)
(* A C array index i (0-based) is the sequence index i + 1.                *)
(* An unsigned int is a pair <<hi, lo>> of 16-bit limbs, so that 32-bit    *)
(* wrap-around is computed exactly.                                        *)
(***************************************************************************)
EXTENDS Integers, Sequences, FiniteSets

VARIABLES
    pc,              \* position in main(), or call/return of a function on its own
    argc,            \* argument count given to main
    inputFile,       \* bytes of the file named by argv[1]
    outFile,         \* bytes of the file named by argv[2] as stored on the device
    outBuf,          \* bytes given to fputc and not yet handed to the device
    input,           \* FILE *input:  "null", "open" or "closed"
    output,          \* FILE *output: "null", "open" or "closed"
    data,            \* contents of the buffer data points to
    i,               \* scan position of the loop in compress
    dataState,       \* "none", "allocated" or "freed"
    original_size,   \* unsigned int original_size
    compressed_size, \* unsigned int compressed_size
    sectors,         \* unsigned int sectors
    exitCode,        \* value returned by main, -1 while running
    released,        \* per resource, how many times it was released
    stages,          \* the pipeline stages executed so far, in order
    lost,            \* number of bytes the output device refused to store
    orig,            \* the buffer as it was before the first call (function runs)
    ncalls,          \* number of calls made so far (function runs)
    file_size        \* argument of pad_to_sector (function runs)

vars == <<pc, argc, inputFile, outFile, outBuf, input, output, data, i, dataState,
          original_size, compressed_size, sectors, exitCode, released, stages, lost,
          orig, ncalls, file_size>>

----------------------------------------------------------------------------
(* Program constants *)

XOR_KEY == 105
SECTOR_SIZE == 512
RepeatCap == 255
ByteRange == 256
Limb == 65536

----------------------------------------------------------------------------
(* Bounds of the model *)

MaxSegs == 3
MaxFileSegs == 2
MaxCalls == 3
MaxEncLen == 3

ByteVals == {0, 1, 170}
EncBytes == {0, 1, 105, 150, 170, 255}
RunLens == {1, 2, 255, 256}
FileRunLens == {1, 3, 256}
AltLens == {256, 257}
HiVals == {0, 1, Limb - 1}
LoVals == (0 .. 2 * SECTOR_SIZE + 1) \cup ((Limb - SECTOR_SIZE - 1) .. (Limb - 1))

----------------------------------------------------------------------------
(* Buffers the inputs are drawn from *)

Run(v, n) == [k \in 1..n |-> v]

RECURSIVE SegBuffers(_, _)
SegBuffers(k, lens) ==
    IF k = 0 THEN {<< >>}
    ELSE LET shorter == SegBuffers(k - 1, lens)
         IN  shorter \cup
             {b \o Run(v, n) : b \in shorter, v \in ByteVals, n \in lens}

Alternating(n) == [k \in 1..n |-> IF k % 2 = 1 THEN 1 ELSE 170]

RECURSIVE ShortBuffers(_, _)
ShortBuffers(n, bytes) ==
    IF n = 0 THEN {<< >>}
    ELSE LET shorter == ShortBuffers(n - 1, bytes)
         IN  shorter \cup {Append(b, v) : b \in shorter, v \in bytes}

Buffers == SegBuffers(MaxSegs, RunLens) \cup {Alternating(n) : n \in AltLens}
EncBuffers == ShortBuffers(MaxEncLen, EncBytes) \cup {<<v>> : v \in 0..(ByteRange - 1)}
InputFiles == SegBuffers(MaxFileSegs, FileRunLens) \cup {Alternating(n) : n \in AltLens}

----------------------------------------------------------------------------
(* unsigned int arithmetic *)

U32(n) == <<(n \div Limb) % Limb, n % Limb>>

U32Add(a, b) ==
    LET lo == a[2] + b[2]
        hi == a[1] + b[1] + (lo \div Limb)
    IN  <<hi % Limb, lo % Limb>>

U32Mod(a, m) == ((a[1] % m) * (Limb % m) + (a[2] % m)) % m

U32Div(a, m) == a[1] * (Limb \div m) + ((a[1] * (Limb % m) + a[2]) \div m)

U32Val(a) == a[1] * Limb + a[2]

----------------------------------------------------------------------------
(* encrypt *)

RECURSIVE XorBits(_, _, _)
XorBits(a, b, n) ==
    IF n = 0 THEN 0
    ELSE (((a % 2) + (b % 2)) % 2) + 2 * XorBits(a \div 2, b \div 2, n - 1)

Xor8(a, b) == XorBits(a, b, 8)

AddKeyEncrypt(d, length) ==
    [k \in 1..Len(d) |-> IF k <= length THEN (d[k] + XOR_KEY) % ByteRange ELSE d[k]]

encrypt(d, length) ==
    [k \in 1..Len(d) |-> IF k <= length THEN Xor8(d[k], XOR_KEY) ELSE d[k]]

----------------------------------------------------------------------------
(* compress: the condition of the inner loop, the value of repeats when it
   ends, and the two bytes one pass of the outer loop gives to fputc *)

RepeatingNoCap(d, length, pos, repeats) ==
    (pos + repeats < length) /\ (d[pos + repeats + 1] = d[pos + 1])

RepeatingCap254(d, length, pos, repeats) ==
    (pos + repeats < length) /\ (d[pos + repeats + 1] = d[pos + 1]) /\ (repeats < RepeatCap - 1)

RepeatingShort(d, length, pos, repeats) ==
    (pos + repeats < length - 1) /\ (d[pos + repeats + 1] = d[pos + 1]) /\ (repeats < RepeatCap)

Repeating(d, length, pos, repeats) ==
    (pos + repeats < length) /\ (d[pos + repeats + 1] = d[pos + 1]) /\ (repeats < RepeatCap)

CountRepeats(d, length, pos) ==
    CHOOSE repeats \in 1..(length - pos) :
        /\ ~Repeating(d, length, pos, repeats)
        /\ \A r \in 1..(repeats - 1) : Repeating(d, length, pos, r)

EmitPair(d, length, pos) ==
    <<CountRepeats(d, length, pos) % ByteRange, d[pos + 1]>>

----------------------------------------------------------------------------
(* pad_to_sector *)

PaddingNeeded(fs) == SECTOR_SIZE - U32Mod(fs, SECTOR_SIZE)

PadBytes(fs) ==
    IF PaddingNeeded(fs) # SECTOR_SIZE THEN Run(0, PaddingNeeded(fs)) ELSE << >>

PaddedSize(fs) ==
    IF PaddingNeeded(fs) # SECTOR_SIZE THEN U32Add(fs, U32(PaddingNeeded(fs))) ELSE fs

pad_to_sector(fs) == U32Div(PaddedSize(fs), SECTOR_SIZE)

----------------------------------------------------------------------------
(* Resources, and the state in which main has not started *)

Res == {"input", "output", "data"}
NoSize == <<0, 0>>

Idle ==
    /\ outFile = << >>
    /\ outBuf = << >>
    /\ input = "null"
    /\ output = "null"
    /\ i = 0
    /\ dataState = "none"
    /\ original_size = NoSize
    /\ compressed_size = NoSize
    /\ sectors = 0
    /\ exitCode = -1
    /\ released = [r \in Res |-> 0]
    /\ stages = << >>
    /\ lost = 0

----------------------------------------------------------------------------
(* main *)

ArgCounts == {2, 3, 4}
StageOrder == <<"read", "encrypt", "compress", "flush", "measure", "pad">>

Release(r) == [released EXCEPT ![r] = @ + 1]
Release2(r1, r2) == [released EXCEPT ![r1] = @ + 1, ![r2] = @ + 1]

\* Numbers of bytes fread may deliver, and fflush or fclose may get stored,
\* out of n
ReadCounts(n) == {0, n - 1, n} \cap (0..n)
AcceptCounts(n) == {0, n - 1, n} \cap (0..n)

Exit(code) == pc' = "done" /\ exitCode' = code

Init ==
    /\ Idle
    /\ pc = "main"
    /\ argc \in ArgCounts
    /\ inputFile \in InputFiles
    /\ data = << >>
    /\ orig = << >>
    /\ ncalls = 0
    /\ file_size = NoSize

\* lines 134-137
CheckArgs ==
    /\ pc = "main"
    /\ IF argc # 3
       THEN Exit(1)
       ELSE pc' = "open" /\ UNCHANGED exitCode
    /\ UNCHANGED <<argc, inputFile, outFile, outBuf, input, output, data, i, dataState,
                   original_size, compressed_size, sectors, released, stages, lost,
                   orig, ncalls, file_size>>

\* lines 140-150: both files are opened, then both results are tested
OpenFiles ==
    /\ pc = "open"
    /\ \E inOk \in BOOLEAN, outOk \in BOOLEAN :
        /\ output' = IF outOk THEN "open" ELSE "null"
        /\ outFile' = IF outOk THEN << >> ELSE outFile
        /\ IF ~inOk
           THEN input' = "null" /\ UNCHANGED released /\ Exit(1)
           ELSE IF ~outOk
                THEN input' = "closed" /\ released' = Release("input") /\ Exit(1)
                ELSE input' = "open" /\ UNCHANGED released
                     /\ pc' = "size" /\ UNCHANGED exitCode
    /\ UNCHANGED <<argc, inputFile, outBuf, data, i, dataState,
                   original_size, compressed_size, sectors, stages, lost,
                   orig, ncalls, file_size>>

\* lines 153-162
MeasureInput ==
    /\ pc = "size"
    /\ original_size' = U32(Len(inputFile))
    /\ IF original_size' = NoSize
       THEN /\ input' = "closed" /\ output' = "closed"
            /\ released' = Release2("input", "output")
            /\ Exit(1)
       ELSE /\ pc' = "alloc"
            /\ UNCHANGED <<input, output, released, exitCode>>
    /\ UNCHANGED <<argc, inputFile, outFile, outBuf, data, i, dataState,
                   compressed_size, sectors, stages, lost, orig, ncalls, file_size>>

\* lines 164-170: the new buffer holds indeterminate bytes
Allocate ==
    /\ pc = "alloc"
    /\ \E ok \in BOOLEAN, fill \in ByteVals :
        IF ~ok
        THEN /\ input' = "closed" /\ output' = "closed"
             /\ released' = Release2("input", "output")
             /\ Exit(1)
             /\ UNCHANGED <<data, dataState>>
        ELSE /\ dataState' = "allocated"
             /\ data' = Run(fill, U32Val(original_size))
             /\ pc' = "read"
             /\ UNCHANGED <<input, output, released, exitCode>>
    /\ UNCHANGED <<argc, inputFile, outFile, outBuf, i, original_size,
                   compressed_size, sectors, stages, lost, orig, ncalls, file_size>>

\* lines 171-177
ReadInput ==
    /\ pc = "read"
    /\ \E n \in ReadCounts(Len(inputFile)) :
        /\ data' = [k \in 1..Len(data) |-> IF k <= n THEN inputFile[k] ELSE data[k]]
        /\ IF n # U32Val(original_size)
           THEN /\ output' = "closed"
                /\ dataState' = "freed"
                /\ released' = Release2("output", "data")
                /\ Exit(1)
                /\ UNCHANGED <<input, stages>>
           ELSE /\ input' = "closed"
                /\ released' = Release("input")
                /\ stages' = Append(stages, "read")
                /\ pc' = "encrypt"
                /\ UNCHANGED <<output, dataState, exitCode>>
    /\ UNCHANGED <<argc, inputFile, outFile, outBuf, i, original_size,
                   compressed_size, sectors, lost, orig, ncalls, file_size>>

\* line 180
EncryptStep ==
    /\ pc = "encrypt"
    /\ data' = encrypt(data, U32Val(original_size))
    /\ stages' = Append(stages, "encrypt")
    /\ pc' = "compress"
    /\ UNCHANGED <<argc, inputFile, outFile, outBuf, input, output, i, dataState,
                   original_size, compressed_size, sectors, exitCode, released, lost,
                   orig, ncalls, file_size>>

\* line 181 with lines 88-99: one pass of the outer loop of compress
CompressIter ==
    /\ pc = "compress"
    /\ i < U32Val(original_size)
    /\ outBuf' = outBuf \o EmitPair(data, U32Val(original_size), i)
    /\ i' = i + CountRepeats(data, U32Val(original_size), i)
    /\ UNCHANGED <<pc, argc, inputFile, outFile, input, output, data, dataState,
                   original_size, compressed_size, sectors, exitCode, released,
                   stages, lost, orig, ncalls, file_size>>

CompressExitNoFlush ==
    /\ pc = "compress"
    /\ ~(i < U32Val(original_size))
    /\ stages' = Append(stages, "compress")
    /\ pc' = "measure"
    /\ UNCHANGED <<argc, inputFile, outFile, outBuf, input, output, data, i, dataState,
                   original_size, compressed_size, sectors, exitCode, released, lost,
                   orig, ncalls, file_size>>

\* line 88: the outer loop of compress ends, compress returns
CompressExit ==
    /\ pc = "compress"
    /\ ~(i < U32Val(original_size))
    /\ stages' = Append(stages, "compress")
    /\ pc' = "flush"
    /\ UNCHANGED <<argc, inputFile, outFile, outBuf, input, output, data, i, dataState,
                   original_size, compressed_size, sectors, exitCode, released, lost,
                   orig, ncalls, file_size>>

\* lines 184-185: the result of fflush is not looked at; bytes the device
\* does not store are gone
FlushStep ==
    /\ pc = "flush"
    /\ \E n \in AcceptCounts(Len(outBuf)) :
        /\ outFile' = outFile \o SubSeq(outBuf, 1, n)
        /\ lost' = lost + (Len(outBuf) - n)
    /\ outBuf' = << >>
    /\ stages' = Append(stages, "flush")
    /\ pc' = "measure"
    /\ UNCHANGED <<argc, inputFile, input, output, data, i, dataState,
                   original_size, compressed_size, sectors, exitCode, released,
                   orig, ncalls, file_size>>

\* line 187: the position after the seek to the end of the file
MeasureOutput ==
    /\ pc = "measure"
    /\ compressed_size' = U32(Len(outFile))
    /\ stages' = Append(stages, "measure")
    /\ pc' = "pad"
    /\ UNCHANGED <<argc, inputFile, outFile, outBuf, input, output, data, i, dataState,
                   original_size, sectors, exitCode, released, lost,
                   orig, ncalls, file_size>>

\* line 188
PadStep ==
    /\ pc = "pad"
    /\ outBuf' = outBuf \o PadBytes(compressed_size)
    /\ sectors' = pad_to_sector(compressed_size)
    /\ stages' = Append(stages, "pad")
    /\ pc' = "finish"
    /\ UNCHANGED <<argc, inputFile, outFile, input, output, data, i, dataState,
                   original_size, compressed_size, exitCode, released, lost,
                   orig, ncalls, file_size>>

\* lines 191-200: fclose hands the padding to the device, its result is not
\* looked at
Finish ==
    /\ pc = "finish"
    /\ \E n \in AcceptCounts(Len(outBuf)) :
        /\ outFile' = outFile \o SubSeq(outBuf, 1, n)
        /\ lost' = lost + (Len(outBuf) - n)
    /\ outBuf' = << >>
    /\ output' = "closed"
    /\ dataState' = "freed"
    /\ released' = Release2("output", "data")
    /\ Exit(0)
    /\ UNCHANGED <<argc, inputFile, input, data, i, original_size, compressed_size,
                   sectors, stages, orig, ncalls, file_size>>

Next ==
    \/ CheckArgs
    \/ OpenFiles
    \/ MeasureInput
    \/ Allocate
    \/ ReadInput
    \/ EncryptStep
    \/ CompressIter
    \/ CompressExit
    \/ FlushStep
    \/ MeasureOutput
    \/ PadStep
    \/ Finish

Spec == Init /\ [][Next]_vars

----------------------------------------------------------------------------
(* The functions called on their own, on inputs drawn from bounded sets *)

\* compress(data, length) entered with any buffer
InitCompress ==
    /\ pc = "compress"
    /\ argc = 3
    /\ inputFile = << >>
    /\ outFile = << >>
    /\ outBuf = << >>
    /\ input = "closed"
    /\ output = "open"
    /\ data \in Buffers
    /\ i = 0
    /\ dataState = "allocated"
    /\ original_size = U32(Len(data))
    /\ compressed_size = NoSize
    /\ sectors = 0
    /\ exitCode = -1
    /\ released = [r \in Res |-> 0]
    /\ stages = << >>
    /\ lost = 0
    /\ orig = data
    /\ ncalls = 0
    /\ file_size = NoSize

NextCompress == CompressIter \/ CompressExit

SpecCompress == InitCompress /\ [][NextCompress]_vars

\* encrypt(data, length) called repeatedly on any buffer
InitEncrypt ==
    /\ Idle
    /\ pc = "encrypt_call"
    /\ argc = 3
    /\ inputFile = << >>
    /\ data \in EncBuffers
    /\ orig = data
    /\ ncalls = 0
    /\ file_size = NoSize

CallEncrypt ==
    /\ pc = "encrypt_call"
    /\ ncalls < MaxCalls
    /\ data' = encrypt(data, Len(data))
    /\ ncalls' = ncalls + 1
    /\ UNCHANGED <<pc, argc, inputFile, outFile, outBuf, input, output, i, dataState,
                   original_size, compressed_size, sectors, exitCode, released,
                   stages, lost, orig, file_size>>

NextEncrypt == CallEncrypt

SpecEncrypt == InitEncrypt /\ [][NextEncrypt]_vars

\* pad_to_sector(output, file_size) called with any file_size
InitPad ==
    /\ Idle
    /\ pc = "pad_call"
    /\ argc = 3
    /\ inputFile = << >>
    /\ data = << >>
    /\ orig = << >>
    /\ ncalls = 0
    /\ file_size \in HiVals \X LoVals

CallPad ==
    /\ pc = "pad_call"
    /\ outBuf' = outBuf \o PadBytes(file_size)
    /\ sectors' = pad_to_sector(file_size)
    /\ ncalls' = ncalls + 1
    /\ pc' = "pad_ret"
    /\ UNCHANGED <<argc, inputFile, outFile, input, output, data, i, dataState,
                   original_size, compressed_size, exitCode, released,
                   stages, lost, orig, file_size>>

NextPad == CallPad

SpecPad == InitPad /\ [][NextPad]_vars

----------------------------------------------------------------------------
(* Reading an output stream back as (count, value) pairs *)

NumPairs(out) == Len(out) \div 2
PairCount(out, k) == out[2 * k - 1]
PairValue(out, k) == out[2 * k]

\* pairs lo..hi, each expanded to count copies of value, concatenated in order
RECURSIVE Expand(_, _, _)
Expand(out, lo, hi) ==
    IF lo > hi THEN << >>
    ELSE IF lo = hi THEN Run(PairValue(out, lo), PairCount(out, lo))
    ELSE LET mid == (lo + hi) \div 2
         IN  Expand(out, lo, mid) \o Expand(out, mid + 1, hi)

Decode(out) == Expand(out, 1, NumPairs(out))

\* the sum of the counts of pairs lo..hi
RECURSIVE CountSum(_, _, _)
CountSum(out, lo, hi) ==
    IF lo > hi THEN 0
    ELSE IF lo = hi THEN PairCount(out, lo)
    ELSE LET mid == (lo + hi) \div 2
         IN  CountSum(out, lo, mid) + CountSum(out, mid + 1, hi)

\* number of buffer bytes before those pair k stands for
PairStart(out, k) == CountSum(out, 1, k - 1)

AllSame(d) == \A k \in 1..Len(d) : d[k] = d[1]
NoAdjacentEqual(d) == \A k \in 1..(Len(d) - 1) : d[k] # d[k + 1]
CeilDiv(n, m) == (n + m - 1) \div m

CompressReturned == pc = "flush"

----------------------------------------------------------------------------
(* Claims about compress, under SpecCompress *)

\* C1: for every non-empty buffer, expanding each (count, value) pair that
\* compress wrote into count copies of value, in emission order, gives the
\* buffer back: same length, same bytes.
C1_RoundTrip ==
    (CompressReturned /\ data # << >>) =>
        /\ Len(outBuf) = 2 * NumPairs(outBuf)
        /\ Len(Decode(outBuf)) = Len(data)
        /\ Decode(outBuf) = data

C1_Witness ==
    /\ CompressReturned
    /\ Len(data) > RepeatCap
    /\ NumPairs(outBuf) >= 3
    /\ Decode(outBuf) = data

\* C3: every emitted pair has its count in 1..255, and two consecutive pairs
\* carry the same value only when the earlier one has count 255 and the
\* buffer holds more than 255 equal bytes from where the earlier pair starts.
C3_RunBound ==
    /\ \A k \in 1..NumPairs(outBuf) :
        PairCount(outBuf, k) >= 1 /\ PairCount(outBuf, k) <= 255
    /\ \A k \in 1..(NumPairs(outBuf) - 1) :
        (PairValue(outBuf, k) = PairValue(outBuf, k + 1)) =>
            /\ PairCount(outBuf, k) = 255
            /\ \A q \in 1..256 : data[PairStart(outBuf, k) + q] = PairValue(outBuf, k)

C3_Witness ==
    /\ CompressReturned
    /\ \E k \in 1..(NumPairs(outBuf) - 1) :
        /\ PairValue(outBuf, k) = PairValue(outBuf, k + 1)
        /\ PairCount(outBuf, k) = 255

\* C8: compress is greedy. A pair with count below 255 is followed in the
\* buffer by a different byte or by the end of the buffer; L identical bytes
\* give ceil(L / 255) pairs (256 bytes give counts 255 then 1); a buffer of N
\* bytes with no two adjacent bytes equal gives N pairs of count 1, 2N bytes.
C8_Greedy ==
    CompressReturned =>
        /\ \A k \in 1..NumPairs(outBuf) :
            LET start == PairStart(outBuf, k)
                end == start + PairCount(outBuf, k)
            IN  /\ \A q \in (start + 1)..end : data[q] = data[start + 1]
                /\ PairCount(outBuf, k) < 255 =>
                       (end = Len(data) \/ data[end + 1] # data[start + 1])
        /\ (data # << >> /\ AllSame(data)) =>
               NumPairs(outBuf) = CeilDiv(Len(data), 255)
        /\ (Len(data) = 256 /\ AllSame(data)) =>
               outBuf = <<255, data[1], 1, data[1]>>
        /\ NoAdjacentEqual(data) =>
               /\ NumPairs(outBuf) = Len(data)
               /\ Len(outBuf) = 2 * Len(data)
               /\ \A k \in 1..NumPairs(outBuf) : PairCount(outBuf, k) = 1

C8_Witness ==
    /\ CompressReturned
    /\ Len(data) = 256
    /\ AllSame(data)
    /\ outBuf = <<255, data[1], 1, data[1]>>

----------------------------------------------------------------------------
(* Claims about encrypt, under SpecEncrypt *)

\* C5: encrypt is an involution: applied twice it gives the buffer back byte
\* for byte; it changes no length and does nothing to an empty buffer.
C5_Involution ==
    /\ Len(data) = Len(orig)
    /\ (ncalls % 2 = 0) => data = orig
    /\ (orig = << >>) => data = << >>

C5_Witness ==
    /\ ncalls = 2
    /\ Len(orig) > 1
    /\ data = orig

----------------------------------------------------------------------------
(* Claims about pad_to_sector, under SpecPad *)

PadReturned == pc = "pad_ret"
Appended == Len(outBuf)

\* the quotient of (file_size + Appended) by the sector size, computed
\* without any limit on the width of the sum
UnboundedSectors ==
    file_size[1] * (Limb \div SECTOR_SIZE)
        + ((file_size[2] + Appended) \div SECTOR_SIZE)

\* C4: for any current length, pad_to_sector appends between 0 and 511 zero
\* bytes, so that length plus appended is the smallest multiple of 512 that
\* is at least the length, appends nothing to a multiple of 512, and returns
\* (length + appended) / 512.
C4_PadContract ==
    PadReturned =>
        /\ Appended >= 0 /\ Appended <= SECTOR_SIZE - 1
        /\ \A k \in 1..Appended : outBuf[k] = 0
        /\ (file_size[2] + Appended) % SECTOR_SIZE = 0
        /\ (file_size[2] % SECTOR_SIZE = 0) => Appended = 0
        /\ sectors = UnboundedSectors

\* C10: the sum file_size + padding_needed never leaves 32 bits, so the
\* returned sector count is ceil(file_size / 512), and is at least 1 for a
\* file_size above 0.
C10_NoWrap ==
    PadReturned =>
        /\ (file_size[1] + ((file_size[2] + Appended) \div Limb)) < Limb
        /\ sectors = file_size[1] * (Limb \div SECTOR_SIZE)
                         + CeilDiv(file_size[2], SECTOR_SIZE)
        /\ (file_size # NoSize) => sectors >= 1

----------------------------------------------------------------------------
(* Claims about main, under Spec *)

Done == pc = "done"
Acquired(r) ==
    IF r = "input" THEN input # "null"
    ELSE IF r = "output" THEN output # "null"
    ELSE dataState # "none"

Encrypted(f) == [k \in 1..Len(f) |-> Xor8(f[k], XOR_KEY)]
IsPrefix(s, t) == Len(s) <= Len(t) /\ \A k \in 1..Len(s) : s[k] = t[k]

\* C2: on exit 0 with a non-empty input, the output file is the run-length
\* pairs of the input XOR 0x69, in order, followed by zero bytes only, its
\* length the smallest multiple of 512 that is at least the compressed
\* length; the reported sector count is that length / 512 and the reported
\* compressed size is the length before padding.
C2_OutputLayout ==
    (Done /\ exitCode = 0 /\ inputFile # << >>) =>
        LET csize == U32Val(compressed_size)
            pairs == SubSeq(outFile, 1, csize)
        IN  /\ csize >= 2 /\ csize <= Len(outFile)
            /\ csize % 2 = 0
            /\ \A k \in 1..NumPairs(pairs) : PairCount(pairs, k) >= 1
            /\ Decode(pairs) = Encrypted(inputFile)
            /\ \A k \in (csize + 1)..Len(outFile) : outFile[k] = 0
            /\ Len(outFile) = SECTOR_SIZE * CeilDiv(csize, SECTOR_SIZE)
            /\ sectors = Len(outFile) \div SECTOR_SIZE

\* C6: main returns 0 only when all pairs and all the padding are in the
\* output file, every failure makes it return 1, and an empty input gives 1
\* with nothing written.
C6_NoPartialSuccess ==
    Done =>
        /\ exitCode \in {0, 1}
        /\ (exitCode = 0) =>
               /\ Len(outFile) > 0
               /\ Len(outFile) % SECTOR_SIZE = 0
               /\ Decode(outFile) = Encrypted(inputFile)
        /\ (lost > 0) => exitCode = 1
        /\ (argc # 3 \/ input = "null" \/ output = "null") => exitCode = 1
        /\ (inputFile = << >>) => (exitCode = 1 /\ outFile = << >>)

\* C7: when main returns, every resource acquired before (input handle,
\* output handle, buffer) has been released exactly once.
C7_AllReleased ==
    Done => \A r \in Res : Acquired(r) => released[r] = 1

\* C9: the stages run in the order read, encrypt, compress, flush, measure,
\* pad, each at most once; once the input is read the buffer changes in the
\* encrypt step only, and not at all once compress has started.
C9_StageOrder ==
    /\ [](IsPrefix(stages, StageOrder))
    /\ [][(data' # data) => pc \in {"alloc", "read", "encrypt"}]_vars
    /\ [][(pc \in {"compress", "flush", "measure", "pad", "finish", "done"})
             => data' = data]_vars
    /\ [][(compressed_size' # compressed_size) =>
             (stages = SubSeq(StageOrder, 1, 4) /\ outBuf = << >>)]_vars
    /\ [][(sectors' # sectors \/ (pc = "pad" /\ pc' # pc)) =>
             stages = SubSeq(StageOrder, 1, 5)]_vars

C9_Witness ==
    /\ Done
    /\ exitCode = 0
    /\ stages = StageOrder
    /\ data = Encrypted(inputFile)

----------------------------------------------------------------------------
(* Where the failing statements do hold *)

\* The sum in pad_to_sector stays within 32 bits
FitsUnsigned == file_size[1] < Limb - 1 \/ file_size[2] <= Limb - SECTOR_SIZE

\* Under SpecPad: the padding contract and the sector count for every
\* file_size whose padded size fits an unsigned int
PadContractWhenFits == FitsUnsigned => (C4_PadContract /\ C10_NoWrap)

\* Under Spec: the output layout and the exit code when the device stored
\* every byte handed to it
LayoutWhenStored == (lost = 0) => (C2_OutputLayout /\ C6_NoPartialSuccess)

\* Under Spec: the exits of main that release everything they acquired
ReleasedOnOtherExits ==
    (Done /\ input # "null" /\ (exitCode = 0 \/ dataState = "none")) =>
        \A r \in Res : Acquired(r) => released[r] = 1

====
